---- MODULE Spec2Model ----
(***************************************************************************)
(* The chat page of the AutoBI frontend (ChatPage.jsx with the chat calls  *)
(* of services/api.js) as a state machine.  The state is the React state   *)
(* of the ChatPage component plus the network calls that are in flight;    *)
(* every action is one event handler, effect or promise continuation, run  *)
(* to completion as the single-threaded event loop runs it.                *)
(***************************************************************************)
EXTENDS Integers, Sequences, FiniteSets, TLC

(***************************************************************************)
(* Bounds of the model.                                                    *)
(***************************************************************************)
\* the user performs at most this many operations that change the session: accepted
\* questions, clears, analysis runs and changes of the file_id taken together
MaxOps == 2
\* Date.now() takes the values 0..MaxNow
MaxNow == 1
\* formatInline is given texts of at most this many characters
MaxText == 7
\* renderMarkdown is given texts of at most this many lines
MaxLines == 3

(***************************************************************************)
(* Values.  A text is a sequence of characters; " " is white space.        *)
(***************************************************************************)
Whitespace == {" "}

\* searchParams.get("file_id") is null when the URL carries no file_id
NoFile == "null"
FileIds == {"ds1", "ds2"}

\* useState(null) of sessionId
NoSession == "null"

\* sendMessage() called without an argument
Undefined == <<"undefined">>

\* what the user can type into the textarea
InputTexts == {<<>>, <<" ", "a">>}

\* suggestion texts the backend may return (blank ones included)
S1 == <<"a">>
S2 == <<"b", " ">>
S3 == <<" ">>
S4 == <<>>
SuggestionLists == {<<>>, <<S1, S2, S3>>, <<S1, S2, S3, S4>>}

\* bodies of GET /chat/suggestions/{file_id}: with a list, or without one
SuggestionResponses ==
    {[suggestions |-> l] : l \in SuggestionLists} \cup {[detail |-> <<"n">>]}

\* bodies of POST /chat/ask: optional fields are present or absent
AskResponses ==
    { [answer |-> <<"t">>],
      [answer |-> <<"r">>, session_id |-> "s1", suggestions |-> <<>>],
      [answer |-> <<"s">>, tool_calls |-> <<[tool |-> "query", args |-> <<>>]>>,
       error |-> TRUE, session_id |-> "s2", suggestions |-> <<S2>>] }

\* axios.create({ timeout: 120000 }): a call not answered within two minutes is
\* rejected by the client, with a message and without a response
TimeoutError == [detail |-> <<>>, message |-> <<"m">>]

\* rejections of a call: err.response?.data?.detail (<<>> when there is none)
\* and err.message
AskErrors ==
    { TimeoutError,
      [detail |-> <<"d">>, message |-> <<"m">>] }

(***************************************************************************)
(* Pure helpers.                                                           *)
(***************************************************************************)
RECURSIVE TrimStart(_)
TrimStart(s) ==
    IF s # <<>> /\ Head(s) \in Whitespace THEN TrimStart(Tail(s)) ELSE s

RECURSIVE TrimEnd(_)
TrimEnd(s) ==
    IF s # <<>> /\ s[Len(s)] \in Whitespace
    THEN TrimEnd(SubSeq(s, 1, Len(s) - 1))
    ELSE s

\* String.prototype.trim
Trim(s) == TrimEnd(TrimStart(s))

\* (text || input): undefined and "" are falsy
TextOrInput(text, inp) == IF text = Undefined \/ text = <<>> THEN inp ELSE text

\* the question without the trim
QuestionUntrimmed(text, inp) == TextOrInput(text, inp)

\* const question = (text || input).trim()
Question(text, inp) == Trim(TextOrInput(text, inp))

Has(rec, field) == field \in DOMAIN rec

VARIABLES
    fileId,             \* searchParams.get("file_id")
    messages,           \* useState([])
    input,              \* useState("")
    loading,            \* useState(false): the pending flag
    suggestions,        \* useState([])
    sessionId,          \* useState(null)
    analysisReady,      \* useState(null): "null", "true", "false" or "undefined"
    preparingAnalysis,  \* useState(false)
    asks,               \* askQuestion calls in flight, oldest first
    loads,              \* getChatSuggestions calls of the load effect in flight, per file
    probes,             \* getChatSuggestions calls of the readiness effect in flight, per file
    preps,              \* handlePrepareAnalysis runs suspended at an await
    now,                \* Date.now()
    ops,                \* how many operations the user has performed
    uncaught,           \* a rejection escaped a handler
    asked,              \* the questions accepted since the transcript was last empty
    replies,            \* the requests settled since then, in settling order: the
                        \* question of each and the content it settled with
    cleared,            \* clearChat has run while a request was in flight
    last,               \* the handler that ran last and what it was given
    md,                 \* a call of renderMarkdown: its text and its local variables
    fi                  \* a call of formatInline: its text and what it returned

ui == <<messages, input, loading, suggestions, sessionId, analysisReady, preparingAnalysis>>
net == <<asks, loads, probes, preps>>
ghost == <<asked, replies, cleared>>
chat == <<fileId, ui, net, now, ops, uncaught, ghost, last>>
pure == <<md, fi>>
vars == <<chat, pure>>

\* the handler that ran, the argument or response it was given, and its outcome
Ev(op, arg, outcome) == [op |-> op, arg |-> arg, outcome |-> outcome]

NoCalls == [f \in FileIds |-> 0]

\* the two effects that depend on [fileId] run after mount and after each change
LoadEffect(f, l) == IF f = NoFile THEN l ELSE [l EXCEPT ![f] = @ + 1]
ProbeEffect(f, p) == IF f = NoFile THEN p ELSE [p EXCEPT ![f] = @ + 1]

\* no call of renderMarkdown, no call of formatInline
NoRender == [called |-> FALSE]
NoFormat == [called |-> FALSE]

\* the page after its first render and its mount effects
InitChat ==
    /\ fileId \in {"ds1", NoFile}
    /\ messages = <<>>
    /\ input = <<>>
    /\ loading = FALSE
    /\ suggestions = <<>>
    /\ sessionId = NoSession
    /\ analysisReady = "null"
    /\ preparingAnalysis = FALSE
    /\ asks = <<>>
    /\ loads = LoadEffect(fileId, NoCalls)
    /\ probes = ProbeEffect(fileId, NoCalls)
    /\ preps = <<>>
    /\ now = 0
    /\ ops = 0
    /\ uncaught = FALSE
    /\ asked = <<>>
    /\ replies = <<>>
    /\ cleared = FALSE
    /\ last = Ev("mount", <<>>, "")

Init == InitChat /\ md = NoRender /\ fi = NoFormat

(***************************************************************************)
(* sendMessage                                                             *)
(***************************************************************************)
\* the guard without its loading test
SendAcceptedWhilePending(question) == ~(question = <<>> \/ fileId = NoFile)

\* if (!question || loading || !fileId) return;
SendAccepted(question) == ~(question = <<>> \/ loading \/ fileId = NoFile)

UserMsg(question) ==
    [id |-> now, role |-> "user", content |-> question, timestamp |-> now]

\* messages.map((m) => ({ role: m.role, content: m.content })), mapped once
\* more, to the same fields, by askQuestion
History(msgs) ==
    [i \in 1..Len(msgs) |-> [role |-> msgs[i].role, content |-> msgs[i].content]]

\* the history taken after the new question was recorded
AskRequestAfterAppend(question) ==
    [file_id |-> fileId, question |-> question,
     history |-> History(Append(messages, UserMsg(question)))]

AskRequest(question) ==
    [file_id |-> fileId, question |-> question, history |-> History(History(messages))]

\* the new message written over the last one: [...prev.slice(0, -1), msg]
AppendedOverLast(prev, msg) == Append(SubSeq(prev, 1, Len(prev) - 1), msg)

\* the new message put in front: [msg, ...prev]
Prepended(prev, msg) == <<msg>> \o prev

\* setMessages((prev) => [...prev, msg])
Appended(prev, msg) == Append(prev, msg)

\* sendMessage up to its await
sendMessage(text) ==
    LET question == Question(text, input) IN
    IF SendAccepted(question)
    THEN /\ ops < MaxOps
         /\ ops' = ops + 1
         /\ messages' = Appended(messages, UserMsg(question))
         /\ input' = <<>>
         /\ loading' = TRUE
         /\ asks' = Append(asks, AskRequest(question))
         /\ asked' = IF cleared THEN asked ELSE Append(asked, question)
         /\ last' = Ev("sendMessage", text, "accepted")
         /\ UNCHANGED <<fileId, suggestions, sessionId, analysisReady,
                        preparingAnalysis, loads, probes, preps, now, uncaught, pure,
                        replies, cleared>>
    ELSE /\ last' = Ev("sendMessage", text, "ignored")
         /\ UNCHANGED <<fileId, ui, net, now, ops, uncaught, pure, ghost>>

\* the assistant message without the response's error flag
AssistantMsgUnflagged(res) ==
    [id |-> now + 1, role |-> "assistant", content |-> res.answer,
     tools |-> IF Has(res, "tool_calls") THEN res.tool_calls ELSE <<>>,
     error |-> FALSE,
     timestamp |-> now]

\* the assistant message of a resolved request
AssistantMsg(res) ==
    [id |-> now + 1, role |-> "assistant", content |-> res.answer,
     tools |-> IF Has(res, "tool_calls") THEN res.tool_calls ELSE <<>>,
     error |-> IF Has(res, "error") THEN res.error ELSE FALSE,
     timestamp |-> now]

\* `Sorry, something went wrong: ${err.response?.data?.detail || err.message}`
ErrorText(err) ==
    <<"Sorry, something went wrong: ">>
        \o (IF err.detail # <<>> THEN err.detail ELSE err.message)

\* the failure message without its error flag
ErrorMsgUnflagged(err) ==
    [id |-> now + 1, role |-> "assistant", content |-> ErrorText(err),
     error |-> FALSE, timestamp |-> now]

\* the assistant message of a rejected request
ErrorMsg(err) ==
    [id |-> now + 1, role |-> "assistant", content |-> ErrorText(err),
     error |-> TRUE, timestamp |-> now]

\* if (res.session_id) setSessionId(res.session_id);
\* the token adopted only while none is held
SessionAfterKeepFirst(res, held) ==
    IF held = NoSession /\ Has(res, "session_id") /\ res.session_id # ""
    THEN res.session_id
    ELSE held

SessionAfter(res, held) ==
    IF Has(res, "session_id") /\ res.session_id # "" THEN res.session_id ELSE held

\* the suggestions set from every response: res.suggestions || []
SuggestionsAfterAlways(res, held) ==
    IF Has(res, "suggestions") THEN res.suggestions ELSE <<>>

\* if (res.suggestions && res.suggestions.length > 0) setSuggestions(res.suggestions);
SuggestionsAfter(res, held) ==
    IF Has(res, "suggestions") /\ Len(res.suggestions) > 0
    THEN res.suggestions
    ELSE held

\* setSuggestions(res.suggestions || [])
SuggestionsOrEmpty(res) == IF Has(res, "suggestions") THEN res.suggestions ELSE <<>>

Remove(seq, i) == SubSeq(seq, 1, i - 1) \o SubSeq(seq, i + 1, Len(seq))

\* no finally block: loading stays as it is
LoadingLeftAsIs == loading

\* setLoading(false) of the finally block
LoadingAfterSettle == FALSE

\* sendMessage after its await, the request resolved: the rest of the try block,
\* then the finally block
AskResolved(i, res) ==
    /\ i \in 1..Len(asks)
    /\ messages' = Appended(messages, AssistantMsg(res))
    /\ sessionId' = SessionAfter(res, sessionId)
    /\ suggestions' = SuggestionsAfter(res, suggestions)
    /\ loading' = LoadingAfterSettle
    /\ asks' = Remove(asks, i)
    /\ replies' = IF cleared THEN replies
                ELSE Append(replies, [question |-> asks[i].question, content |-> res.answer])
    /\ last' = Ev("askResolved", res, "")
    /\ UNCHANGED <<fileId, input, analysisReady, preparingAnalysis, loads, probes,
                   preps, now, ops, uncaught, pure, asked, cleared>>

\* the catch block taking the optimistic user message back
AskRejectedRollback(i, err) ==
    /\ i \in 1..Len(asks)
    /\ messages' = Append(SubSeq(messages, 1, Len(messages) - 1), ErrorMsg(err))
    /\ loading' = FALSE
    /\ asks' = Remove(asks, i)
    /\ replies' = IF cleared THEN replies
                ELSE Append(replies, [question |-> asks[i].question, content |-> ErrorText(err)])
    /\ last' = Ev("askRejected", err, "")
    /\ UNCHANGED <<fileId, input, suggestions, sessionId, analysisReady,
                   preparingAnalysis, loads, probes, preps, now, ops, uncaught, pure,
                   asked, cleared>>

\* sendMessage after its await, the request rejected (transport failure, error
\* status or the 120 s axios timeout): the catch block, then the finally block
AskRejected(i, err) ==
    /\ i \in 1..Len(asks)
    /\ messages' = Appended(messages, ErrorMsg(err))
    /\ loading' = LoadingAfterSettle
    /\ asks' = Remove(asks, i)
    /\ replies' = IF cleared THEN replies
                ELSE Append(replies, [question |-> asks[i].question, content |-> ErrorText(err)])
    /\ last' = Ev("askRejected", err, "")
    /\ UNCHANGED <<fileId, input, suggestions, sessionId, analysisReady,
                   preparingAnalysis, loads, probes, preps, now, ops, uncaught, pure,
                   asked, cleared>>

\* an axios instance without a timeout: the call waits for the backend
AskWaitsForever(i) ==
    /\ i \in 1..Len(asks)
    /\ FALSE
    /\ UNCHANGED vars

\* the timer of the axios instance expires before the backend has answered:
\* the awaited call is rejected by the client
AskTimedOut(i) == AskRejected(i, TimeoutError)

(***************************************************************************)
(* clearChat                                                               *)
(***************************************************************************)
\* a clear that also drops the suggestions
clearChatAndSuggestions ==
    /\ ops < MaxOps
    /\ ops' = ops + 1
    /\ messages' = <<>>
    /\ sessionId' = NoSession
    /\ suggestions' = <<>>
    /\ asked' = <<>>
    /\ replies' = <<>>
    /\ cleared' = (cleared \/ asks # <<>>)
    /\ last' = Ev("clearChat", <<>>, "")
    /\ UNCHANGED <<fileId, input, loading, analysisReady,
                   preparingAnalysis, net, now, uncaught, pure>>

clearChat ==
    /\ ops < MaxOps
    /\ ops' = ops + 1
    /\ messages' = <<>>
    /\ sessionId' = NoSession
    /\ asked' = <<>>
    /\ replies' = <<>>
    /\ cleared' = (cleared \/ asks # <<>>)
    /\ last' = Ev("clearChat", <<>>, "")
    /\ UNCHANGED <<fileId, input, loading, suggestions, analysisReady,
                   preparingAnalysis, net, now, uncaught, pure>>

(***************************************************************************)
(* The effects on [fileId]                                                 *)
(***************************************************************************)
\* the file_id of the URL changes while the page stays mounted (history
\* navigation, the Chat link of the navigation bar): both effects run again
ChangeDataset(f) ==
    /\ f # fileId
    /\ ops < MaxOps
    /\ fileId' = f
    /\ ops' = ops + 1
    /\ loads' = LoadEffect(f, loads)
    /\ probes' = ProbeEffect(f, probes)
    /\ analysisReady' = IF f = NoFile THEN analysisReady ELSE "null"
    /\ last' = Ev("changeDataset", <<>>, f)
    /\ UNCHANGED <<messages, input, loading, suggestions, sessionId,
                   preparingAnalysis, asks, preps, now, uncaught, pure, ghost>>

\* .then((res) => setSuggestions(res.suggestions || []))
LoadResolved(f, res) ==
    /\ loads[f] > 0
    /\ loads' = [loads EXCEPT ![f] = @ - 1]
    /\ suggestions' = SuggestionsOrEmpty(res)
    /\ last' = Ev("loadResolved", res, f)
    /\ UNCHANGED <<fileId, messages, input, loading, sessionId, analysisReady,
                   preparingAnalysis, asks, probes, preps, now, ops, uncaught, pure,
                   ghost>>

\* .catch(() => { })
LoadRejected(f) ==
    /\ loads[f] > 0
    /\ loads' = [loads EXCEPT ![f] = @ - 1]
    /\ last' = Ev("loadRejected", <<>>, f)
    /\ UNCHANGED <<fileId, ui, asks, probes, preps, now, ops, uncaught, pure, ghost>>

\* res.suggestions && res.suggestions.length > 3
ProbeVerdict(res) ==
    IF ~Has(res, "suggestions") THEN "undefined"
    ELSE IF Len(res.suggestions) > 3 THEN "true" ELSE "false"

\* .then((res) => { setAnalysisReady(...) })
ProbeResolved(f, res) ==
    /\ probes[f] > 0
    /\ probes' = [probes EXCEPT ![f] = @ - 1]
    /\ analysisReady' = ProbeVerdict(res)
    /\ last' = Ev("probeResolved", res, f)
    /\ UNCHANGED <<fileId, messages, input, loading, suggestions, sessionId,
                   preparingAnalysis, asks, loads, preps, now, ops, uncaught, pure,
                   ghost>>

\* .catch(() => setAnalysisReady(false))
ProbeRejected(f) ==
    /\ probes[f] > 0
    /\ probes' = [probes EXCEPT ![f] = @ - 1]
    /\ analysisReady' = "false"
    /\ last' = Ev("probeRejected", <<>>, f)
    /\ UNCHANGED <<fileId, messages, input, loading, suggestions, sessionId,
                   preparingAnalysis, asks, loads, preps, now, ops, uncaught, pure,
                   ghost>>

(***************************************************************************)
(* handlePrepareAnalysis                                                   *)
(***************************************************************************)
\* up to await runAnalysis(fileId)
handlePrepareAnalysis ==
    IF fileId = NoFile
    THEN /\ last' = Ev("handlePrepareAnalysis", <<>>, "ignored")
         /\ UNCHANGED <<fileId, ui, net, now, ops, uncaught, pure, ghost>>
    ELSE /\ ops < MaxOps
         /\ ops' = ops + 1
         /\ preparingAnalysis' = TRUE
         /\ preps' = Append(preps, [file_id |-> fileId, phase |-> "run"])
         /\ last' = Ev("handlePrepareAnalysis", <<>>, "started")
         /\ UNCHANGED <<fileId, messages, input, loading, suggestions, sessionId,
                        analysisReady, asks, loads, probes, now, uncaught, pure, ghost>>

\* runAnalysis resolved: setAnalysisReady(true), up to await getChatSuggestions
RunAnalysisResolved(i) ==
    /\ i \in 1..Len(preps)
    /\ preps[i].phase = "run"
    /\ analysisReady' = "true"
    /\ preps' = [preps EXCEPT ![i].phase = "refresh"]
    /\ last' = Ev("runAnalysisResolved", <<>>, preps[i].file_id)
    /\ UNCHANGED <<fileId, messages, input, loading, suggestions, sessionId,
                   preparingAnalysis, asks, loads, probes, now, ops, uncaught, pure,
                   ghost>>

\* a catch block that reports the failure in the transcript
PrepareRejectedWithMessage(i) ==
    /\ i \in 1..Len(preps)
    /\ analysisReady' = "false"
    /\ preparingAnalysis' = FALSE
    /\ preps' = Remove(preps, i)
    /\ messages' = Append(messages, ErrorMsg(TimeoutError))
    /\ last' = Ev("prepareRejected", <<>>, preps[i].phase)
    /\ UNCHANGED <<fileId, input, loading, suggestions, sessionId, asks,
                   loads, probes, now, ops, uncaught, pure, ghost>>

\* either await rejected: the catch block, then the finally block
PrepareRejected(i) ==
    /\ i \in 1..Len(preps)
    /\ analysisReady' = "false"
    /\ preparingAnalysis' = FALSE
    /\ preps' = Remove(preps, i)
    /\ last' = Ev("prepareRejected", <<>>, preps[i].phase)
    /\ UNCHANGED <<fileId, messages, input, loading, suggestions, sessionId, asks,
                   loads, probes, now, ops, uncaught, pure, ghost>>

\* getChatSuggestions resolved: setSuggestions(res.suggestions || []), then the
\* finally block
RefreshResolved(i, res) ==
    /\ i \in 1..Len(preps)
    /\ preps[i].phase = "refresh"
    /\ suggestions' = SuggestionsOrEmpty(res)
    /\ preparingAnalysis' = FALSE
    /\ preps' = Remove(preps, i)
    /\ last' = Ev("refreshResolved", res, "")
    /\ UNCHANGED <<fileId, messages, input, loading, sessionId, analysisReady,
                   asks, loads, probes, now, ops, uncaught, pure, ghost>>

(***************************************************************************)
(* The clock                                                               *)
(***************************************************************************)
Tick ==
    /\ now < MaxNow
    /\ now' = now + 1
    /\ last' = Ev("tick", <<>>, "")
    /\ UNCHANGED <<fileId, ui, net, ops, uncaught, pure, ghost>>

(***************************************************************************)
(* The entry points of the rendered page                                   *)
(***************************************************************************)
\* if (!fileId) return <No Dataset Selected>: nothing below is rendered
Rendered == fileId # NoFile

\* <textarea disabled={loading || analysisReady === false}>
TextareaEnabled == Rendered /\ ~(loading \/ analysisReady = "false")

\* <button disabled={loading || !input.trim() || analysisReady === false}>
SendButtonEnabled ==
    Rendered /\ ~(loading \/ Trim(input) = <<>> \/ analysisReady = "false")

\* messages.length === 0 ? <WelcomeScreen disabled={loading || analysisReady === false}>
WelcomeEnabled ==
    Rendered /\ Len(messages) = 0 /\ ~(loading \/ analysisReady = "false")

\* messages.length > 0 && !loading && suggestions.length > 0 &&
\*   <SuggestionChips disabled={loading}>
ChipsEnabled ==
    Rendered /\ Len(messages) > 0 /\ ~loading /\ Len(suggestions) > 0

\* messages.length > 0 && <button onClick={clearChat}>
ClearShown == Rendered /\ Len(messages) > 0

\* analysisReady === false && !preparingAnalysis && <button onClick={handlePrepareAnalysis}>
RunAnalysisShown == Rendered /\ analysisReady = "false" /\ ~preparingAnalysis

\* onChange={(e) => setInput(e.target.value)}
TypeInput(t) ==
    /\ TextareaEnabled
    /\ input' = t
    /\ last' = Ev("setInput", t, "")
    /\ UNCHANGED <<fileId, messages, loading, suggestions, sessionId, analysisReady,
                   preparingAnalysis, net, now, ops, uncaught, pure, ghost>>

\* handleKeyDown: Enter without Shift
PressEnter == TextareaEnabled /\ sendMessage(Undefined)

\* onClick={() => sendMessage()}
ClickSend == SendButtonEnabled /\ sendMessage(Undefined)

\* onSelect={(q) => sendMessage(q)} of the welcome screen
ClickWelcome(i) ==
    WelcomeEnabled /\ i \in 1..Len(suggestions) /\ sendMessage(suggestions[i])

\* onSelect={(q) => sendMessage(q)} of the suggestion chips
ClickChip(i) ==
    ChipsEnabled /\ i \in 1..Len(suggestions) /\ sendMessage(suggestions[i])

ClickClear == ClearShown /\ clearChat

ClickRunAnalysis == RunAnalysisShown /\ handlePrepareAnalysis

\* submitQuestion as an operation of the controller, called in any state
SubmitQuestion(t) == sendMessage(t)

(***************************************************************************)
(* formatInline                                                            *)
(***************************************************************************)
\* /(\*\*\*(.+?)\*\*\*|\*\*(.+?)\*\*|\*(.+?)\*|`(.+?)`)/g: the alternatives in
\* the order of the regex, each with the marker that opens and closes it and
\* the element its branch of the loop pushes.  Backtick stands for the
\* character of the fourth alternative, which a string here cannot hold.
Backtick == "q"
Markers == << <<"*", "*", "*">>, <<"*", "*">>, <<"*">>, <<Backtick>> >>
SpanKinds == <<"strongItalic", "strong", "em", "code">>

\* a literal slice of the text, pushed as a string
TextSpan(s) == [kind |-> "text", content |-> s]

\* the marker m stands in the text at position p (positions count from 1)
StartsAt(text, p, m) ==
    p + Len(m) - 1 <= Len(text) /\ SubSeq(text, p, p + Len(m) - 1) = m

\* where the closing marker may stand: (.+?) takes at least one character
Closers(text, p, m) == {q \in (p + Len(m) + 1)..Len(text) : StartsAt(text, q, m)}

Least(S) == CHOOSE x \in S : \A y \in S : x <= y

\* alternative k matches at position p
AltMatches(text, p, k) ==
    StartsAt(text, p, Markers[k]) /\ Closers(text, p, Markers[k]) # {}

\* regex.exec found nothing: null
NoMatch == [index |-> 0]

\* the match at position p: the first alternative that matches there, its lazy
\* group stopping at the nearest closing marker
MatchAt(text, p) ==
    LET alts == {k \in 1..Len(Markers) : AltMatches(text, p, k)}
    IN IF alts = {} THEN NoMatch
       ELSE LET k == Least(alts)
                m == Markers[k]
                q == Least(Closers(text, p, m))
            IN [index |-> p,
                kind |-> SpanKinds[k],
                group |-> SubSeq(text, p + Len(m), q - 1),
                end |-> q + Len(m)]

\* regex.exec(text) with regex.lastIndex = from: the leftmost match
RegexExec(text, from) ==
    LET starts == {p \in from..Len(text) : MatchAt(text, p).index # 0}
    IN IF starts = {} THEN NoMatch ELSE MatchAt(text, Least(starts))

\* the branches for match[3] and match[4] exchanged
SpanOfSwapped(m) ==
    [kind |-> IF m.kind = "strong" THEN "em"
              ELSE IF m.kind = "em" THEN "strong" ELSE m.kind,
     content |-> m.group]

\* the element pushed for a match
SpanOf(m) == [kind |-> m.kind, content |-> m.group]

\* while ((match = regex.exec(text)) !== null) { ... }
RECURSIVE ExecLoop(_, _, _)
ExecLoop(text, lastIndex, parts) ==
    LET m == RegexExec(text, lastIndex)
    IN IF m.index = 0
       THEN [lastIndex |-> lastIndex, parts |-> parts]
       ELSE ExecLoop(text, m.end,
                Append(IF m.index > lastIndex
                       THEN Append(parts, TextSpan(SubSeq(text, lastIndex, m.index - 1)))
                       ELSE parts,
                       SpanOf(m)))

\* formatInline(text): parts.length > 0 ? parts : text (the text is then "")
FormatInline(text) ==
    LET r == ExecLoop(text, 1, <<>>)
        parts == IF r.lastIndex <= Len(text)
                 THEN Append(r.parts, TextSpan(SubSeq(text, r.lastIndex, Len(text))))
                 ELSE r.parts
    IN IF Len(parts) > 0 THEN parts ELSE text

\* the characters of the inline texts: the two marker characters and a plain one
InlineChars == {"*", Backtick, "a"}
InlineTexts == UNION {[1..n -> InlineChars] : n \in 0..MaxText}

\* formatInline is called with a text ...
InitInline ==
    /\ InitChat
    /\ fileId = NoFile
    /\ md = NoRender
    /\ fi \in {[called |-> TRUE, text |-> t, returned |-> FALSE] : t \in InlineTexts}

\* ... and returns
formatInline ==
    /\ fi.called
    /\ ~fi.returned
    /\ fi' = [fi EXCEPT !.returned = TRUE] @@ [parts |-> FormatInline(fi.text)]
    /\ UNCHANGED <<chat, md>>

(***************************************************************************)
(* renderMarkdown                                                          *)
(***************************************************************************)
Fence == <<Backtick, Backtick, Backtick>>
Digits == {"1", "2"}

\* line.trim().startsWith("```")
IsFence(line) == StartsAt(Trim(line), 1, Fence)

\* line.trim().slice(3).trim()
FenceLang(line) == Trim(SubSeq(Trim(line), 4, Len(Trim(line))))

\* line.startsWith(prefix)
StartsWith(line, prefix) == StartsAt(line, 1, prefix)

\* line.search(/\S/), match[1].length: the white space the line starts with
RECURSIVE LeadingSpace(_)
LeadingSpace(line) ==
    IF line # <<>> /\ Head(line) \in Whitespace
    THEN 1 + LeadingSpace(Tail(line))
    ELSE 0

\* (\d+): the digits the text starts with
RECURSIVE LeadingDigits(_)
LeadingDigits(t) ==
    IF t # <<>> /\ Head(t) \in Digits
    THEN <<Head(t)>> \o LeadingDigits(Tail(t))
    ELSE <<>>

\* line.slice(n)
Slice(line, n) == SubSeq(line, n + 1, Len(line))

\* line.match(/^\s*[-*]\s/)
IsBullet(line) ==
    LET n == LeadingSpace(line)
    IN /\ n + 2 <= Len(line)
       /\ line[n + 1] \in {"-", "*"}
       /\ line[n + 2] \in Whitespace

\* line.match(/^\s*\d+\.\s/)
IsOrdered(line) ==
    LET n == LeadingSpace(line)
        d == Len(LeadingDigits(Slice(line, n)))
    IN /\ d >= 1
       /\ n + d + 2 <= Len(line)
       /\ line[n + d + 1] = "."
       /\ line[n + d + 2] \in Whitespace

\* line.match(/^---+$/)
IsRule(line) == Len(line) >= 3 /\ \A x \in 1..Len(line) : line[x] = "-"

\* marginLeft: Math.min(indent, 4) * 8, without the clamp
MarginLeftUnclamped(indent) == indent * 8

\* marginLeft: Math.min(indent, 4) * 8
MarginLeft(indent) == (IF indent < 4 THEN indent ELSE 4) * 8

\* the element pushed for line i outside a code block: the if / else if chain
LineElement(line, i) ==
    IF StartsWith(line, <<"#", "#", "#", " ">>)
    THEN [kind |-> "h3", key |-> i, content |-> FormatInline(Slice(line, 4))]
    ELSE IF StartsWith(line, <<"#", "#", " ">>)
    THEN [kind |-> "h2", key |-> i, content |-> FormatInline(Slice(line, 3))]
    ELSE IF StartsWith(line, <<"#", " ">>)
    THEN [kind |-> "h1", key |-> i, content |-> FormatInline(Slice(line, 2))]
    ELSE IF IsBullet(line)
    THEN [kind |-> "bullet", key |-> i,
          marginLeft |-> MarginLeft(LeadingSpace(line)),
          content |-> FormatInline(Slice(line, LeadingSpace(line) + 2))]
    ELSE IF IsOrdered(line)
    THEN LET n == LeadingSpace(line)
             digits == LeadingDigits(Slice(line, n))
         IN [kind |-> "ordered", key |-> i,
             marginLeft |-> MarginLeft(n),
             index |-> digits,
             content |-> FormatInline(Slice(line, n + Len(digits) + 2))]
    ELSE IF IsRule(line)
    THEN [kind |-> "hr", key |-> i]
    ELSE IF Trim(line) = <<>>
    THEN [kind |-> "blank", key |-> i]
    ELSE [kind |-> "p", key |-> i, content |-> FormatInline(line)]

\* <pre key={`code-${i}`}>: the language and the collected lines, which
\* codeLines.join("\n") shows one per line
CodeElement(lang, code, i) ==
    [kind |-> "pre", key |-> <<"code", i>>, lang |-> lang, code |-> code]

\* the lines a text may be made of: text.split("\n")
SampleLines ==
    { <<>>,
      <<" ", " ">>,
      <<"a">>,
      <<"*", "*", "a", "*", "*">>,
      <<"#", " ", "a">>,
      <<"#", "#", " ", "a">>,
      <<"#", "#", "#", " ", "a">>,
      <<"#", "#", "#", "#", " ", "a">>,
      <<"-", " ", "a">>,
      <<" ", " ", " ", " ", " ", "*", " ", "a">>,
      <<" ", "1", "2", ".", " ", "a">>,
      <<"-", "-">>,
      <<"-", "-", "-">>,
      <<Backtick, Backtick, Backtick, "j">>,
      <<" ", Backtick, Backtick, Backtick>> }
Texts == UNION {[1..n -> SampleLines] : n \in 1..MaxLines}

\* renderMarkdown is called: const lines = text.split("\n"), the locals set
InitRender ==
    /\ InitChat
    /\ fileId = NoFile
    /\ fi = NoFormat
    /\ md \in {[called |-> TRUE, lines |-> t, i |-> 0, elements |-> <<>>,
                inCodeBlock |-> FALSE, codeLines |-> <<>>, codeLang |-> <<>>,
                returned |-> FALSE, null |-> FALSE] : t \in Texts}

\* !text: the text is the empty string
EmptyText(lines) == lines = << <<>> >>

\* the loop is at line i
AtLine ==
    /\ md.called
    /\ ~md.returned
    /\ ~EmptyText(md.lines)
    /\ md.i < Len(md.lines)

\* lines[i]
Line == md.lines[md.i + 1]

\* if (!text) return null
RenderNull ==
    /\ md.called
    /\ ~md.returned
    /\ EmptyText(md.lines)
    /\ md' = [md EXCEPT !.returned = TRUE, !.null = TRUE]
    /\ UNCHANGED <<chat, fi>>

\* a fence line inside a code block: the block is pushed
FenceClose ==
    /\ AtLine
    /\ IsFence(Line)
    /\ md.inCodeBlock
    /\ md' = [md EXCEPT !.elements = Append(@, CodeElement(md.codeLang, md.codeLines, md.i)),
                        !.codeLines = <<>>,
                        !.codeLang = <<>>,
                        !.inCodeBlock = FALSE,
                        !.i = @ + 1]
    /\ UNCHANGED <<chat, fi>>

\* a fence line outside a code block
FenceOpen ==
    /\ AtLine
    /\ IsFence(Line)
    /\ ~md.inCodeBlock
    /\ md' = [md EXCEPT !.inCodeBlock = TRUE,
                        !.codeLang = FenceLang(Line),
                        !.i = @ + 1]
    /\ UNCHANGED <<chat, fi>>

\* a line inside a code block, read as any other line
CodeLineClassified ==
    /\ AtLine
    /\ ~IsFence(Line)
    /\ md.inCodeBlock
    /\ md' = [md EXCEPT !.elements = Append(@, LineElement(Line, md.i)), !.i = @ + 1]
    /\ UNCHANGED <<chat, fi>>

\* if (inCodeBlock) { codeLines.push(line); continue; }
CodeLine ==
    /\ AtLine
    /\ ~IsFence(Line)
    /\ md.inCodeBlock
    /\ md' = [md EXCEPT !.codeLines = Append(@, Line), !.i = @ + 1]
    /\ UNCHANGED <<chat, fi>>

\* any other line: the if / else if chain pushes one element
ClassifyLine ==
    /\ AtLine
    /\ ~IsFence(Line)
    /\ ~md.inCodeBlock
    /\ md' = [md EXCEPT !.elements = Append(@, LineElement(Line, md.i)), !.i = @ + 1]
    /\ UNCHANGED <<chat, fi>>

\* the loop has ended: return elements
RenderReturn ==
    /\ md.called
    /\ ~md.returned
    /\ ~EmptyText(md.lines)
    /\ md.i = Len(md.lines)
    /\ md' = [md EXCEPT !.returned = TRUE]
    /\ UNCHANGED <<chat, fi>>

renderMarkdown ==
    \/ RenderNull
    \/ FenceClose
    \/ FenceOpen
    \/ CodeLine
    \/ ClassifyLine
    \/ RenderReturn

(***************************************************************************)
(* Specifications                                                          *)
(***************************************************************************)
Backend ==
    \/ \E i \in 1..Len(asks), res \in AskResponses : AskResolved(i, res)
    \/ \E i \in 1..Len(asks), err \in AskErrors \ {TimeoutError} : AskRejected(i, err)
    \/ \E i \in 1..Len(asks) : AskTimedOut(i)
    \/ \E f \in FileIds, res \in SuggestionResponses : LoadResolved(f, res)
    \/ \E f \in FileIds : LoadRejected(f)
    \/ \E f \in FileIds, res \in SuggestionResponses : ProbeResolved(f, res)
    \/ \E f \in FileIds : ProbeRejected(f)
    \/ \E i \in 1..Len(preps) : RunAnalysisResolved(i)
    \/ \E i \in 1..Len(preps) : PrepareRejected(i)
    \/ \E i \in 1..Len(preps), res \in SuggestionResponses : RefreshResolved(i, res)

User ==
    \/ \E t \in InputTexts : TypeInput(t)
    \/ PressEnter
    \/ ClickSend
    \/ \E i \in 1..Len(suggestions) : ClickWelcome(i)
    \/ \E i \in 1..Len(suggestions) : ClickChip(i)
    \/ ClickClear
    \/ ClickRunAnalysis
    \/ \E f \in FileIds \cup {NoFile} : ChangeDataset(f)

\* the page as a user drives it, all within one millisecond of the clock
NextUI == User \/ Backend

SpecUI == Init /\ [][NextUI]_vars

\* the page with submitQuestion also called as an operation, in any state
Next == NextUI \/ \E t \in {Undefined, S2} : SubmitQuestion(t)

Spec == Init /\ [][Next]_vars

\* the page with the timer of the axios instance: a call that stays unanswered
\* is rejected by the client in the end (the browser fires the timer)
SpecTimeout == Spec /\ WF_vars(\E i \in 1..Len(asks) : AskTimedOut(i))

\* renderMarkdown on every text of up to MaxLines of the sample lines
SpecRender == InitRender /\ [][renderMarkdown]_vars

\* formatInline on every text of up to MaxText characters
SpecInline == InitInline /\ [][formatInline]_vars

\* the same with the clock running
SpecClock == Init /\ [][Next \/ Tick]_vars

(***************************************************************************)
(* Properties                                                              *)
(***************************************************************************)
Accepted(l) == l.op = "sendMessage" /\ l.outcome = "accepted"
Ignored(l) == l.op = "sendMessage" /\ l.outcome = "ignored"
Settled(l) == l.op \in {"askResolved", "askRejected"}
IsPrefix(s, t) == Len(s) <= Len(t) /\ SubSeq(t, 1, Len(s)) = s
LastOf(s) == s[Len(s)]

\* C1: in every reachable state at most one question request is in flight, and
\* loading is true exactly while that request is in flight.
SingleFlight == Len(asks) <= 1 /\ (loading <=> Len(asks) = 1)

\* a second submission was attempted while the first request is in flight
SingleFlightWitness == Len(asks) = 1 /\ loading /\ Ignored(last) /\ ops = 2

\* C2: a call of sendMessage while loading is true, with a text that is blank
\* after trimming, or with no file_id bound, changes nothing: no message, no
\* request, and messages, suggestions, sessionId, readiness and loading as before.
RejectedSubmitIsNoOp ==
    [][ ( /\ last'.op = "sendMessage"
          /\ \/ loading
             \/ fileId = NoFile
             \/ Trim(TextOrInput(last'.arg, input)) = <<>> )
        => UNCHANGED <<fileId, ui, net, ghost>> ]_vars

\* a non-blank question was submitted while a request was in flight, and ignored
RejectedSubmitWitness ==
    /\ Ignored(last)
    /\ loading
    /\ fileId # NoFile
    /\ last.arg # Undefined
    /\ Trim(last.arg) # <<>>

\* C3: while no clear has cut into a request, the transcript reads user:q1,
\* assistant:r1, ..., user:qn, assistant:rn, where ri is what the request of qi
\* settled with (its answer or its failure message).
ConversationOrdering ==
    ~cleared =>
        /\ Len(replies) \in {Len(asked), Len(asked) - 1}
        /\ \A i \in 1..Len(replies) : replies[i].question = asked[i]
        /\ History(messages) =
             [i \in 1..(Len(asked) + Len(replies)) |->
                IF i % 2 = 1
                THEN [role |-> "user", content |-> asked[(i + 1) \div 2]]
                ELSE [role |-> "assistant", content |-> replies[i \div 2].content]]

\* two different questions, each answered, the answers different
ConversationOrderingWitness ==
    /\ ~cleared
    /\ Len(messages) = 4
    /\ Len(replies) = 2
    /\ asked[1] # asked[2]
    /\ replies[1].content # replies[2].content

\* C4: an accepted sendMessage appends the user message (content = the trimmed
\* text) and sets loading in the step that issues the request, and a failing
\* request keeps every message of the transcript, that user message included.
OptimisticAppend ==
    [][ /\ Accepted(last') =>
            /\ IsPrefix(messages, messages')
            /\ Len(messages') = Len(messages) + 1
            /\ LastOf(messages').role = "user"
            /\ LastOf(messages').content = Trim(TextOrInput(last'.arg, input))
            /\ loading'
            /\ Len(asks') = Len(asks) + 1
            /\ LastOf(asks').question = LastOf(messages').content
        /\ last'.op = "askRejected" =>
            /\ IsPrefix(messages, messages')
            /\ (~cleared /\ messages # <<>>) =>
                  /\ LastOf(messages).role = "user"
                  /\ messages'[Len(messages)] = LastOf(messages)
      ]_vars

\* the request failed and the question is still the message before the error
OptimisticAppendWitness ==
    /\ last.op = "askRejected"
    /\ Len(messages) = 2
    /\ messages[1].role = "user"
    /\ messages[1].content = <<"a">>
    /\ messages[2].error

\* C5: the request carries the bound file_id, the trimmed question and, as
\* history, the role and content of every message recorded before this question,
\* in order, without the new question.
RequestCarriesHistory ==
    [][ Accepted(last') =>
          asks' = Append(asks,
                    [file_id |-> fileId,
                     question |-> Trim(TextOrInput(last'.arg, input)),
                     history |-> [i \in 1..Len(messages) |->
                                    [role |-> messages[i].role,
                                     content |-> messages[i].content]]])
      ]_vars

\* a request whose history holds an earlier question and its error message
RequestCarriesHistoryWitness ==
    /\ Accepted(last)
    /\ Len(asks) = 1
    /\ Len(messages) = 3
    /\ "error" \in DOMAIN messages[2]
    /\ messages[2].error
    /\ asks[1].history = <<[role |-> "user", content |-> messages[1].content],
                           [role |-> "assistant", content |-> messages[2].content]>>

\* C6: a resolved request appends exactly one assistant message, with the
\* response's answer, its tool_calls (none when absent) and its error flag
\* (false when absent); every earlier message stays as it was.
SuccessAppendsAnswer ==
    [][ last'.op = "askResolved" =>
          LET res == last'.arg
              m == LastOf(messages')
          IN /\ IsPrefix(messages, messages')
             /\ Len(messages') = Len(messages) + 1
             /\ m.role = "assistant"
             /\ m.content = res.answer
             /\ m.tools = (IF "tool_calls" \in DOMAIN res THEN res.tool_calls ELSE <<>>)
             /\ m.error = (IF "error" \in DOMAIN res THEN res.error ELSE FALSE)
      ]_vars

\* a response with tool calls and the error flag set has been appended
SuccessAppendsAnswerWitness ==
    /\ last.op = "askResolved"
    /\ "error" \in DOMAIN last.arg
    /\ last.arg.error
    /\ LastOf(messages).error
    /\ LastOf(messages).tools # <<>>
    /\ LastOf(messages).content = <<"s">>

\* C7: a rejected request appends exactly one assistant message with error =
\* true, lets no rejection escape, leaves suggestions and sessionId alone, and
\* issues no request: requests are issued by submissions only.
FailureAppendsError ==
    [][ /\ last'.op = "askRejected" =>
            /\ IsPrefix(messages, messages')
            /\ Len(messages') = Len(messages) + 1
            /\ LastOf(messages').role = "assistant"
            /\ LastOf(messages').error = TRUE
            /\ suggestions' = suggestions
            /\ sessionId' = sessionId
            /\ Len(asks') = Len(asks) - 1
            /\ ~uncaught'
        /\ Len(asks') > Len(asks) => Accepted(last')
      ]_vars

\* a request failed while suggestions and a session token were held
FailureAppendsErrorWitness ==
    /\ last.op = "askRejected"
    /\ LastOf(messages).error
    /\ suggestions # <<>>
    /\ sessionId # NoSession
    /\ asks = <<>>

\* C8: after a request settles, resolved or rejected, loading is false and a
\* submission with a non-blank text is accepted (for as long as a file is bound).
PendingClearedOnSettle ==
    Settled(last) => /\ ~loading
                     /\ fileId # NoFile => SendAccepted(<<"a">>)

\* after a failure the next question has been accepted
PendingClearedOnSettleWitness ==
    /\ Accepted(last)
    /\ Len(messages) = 3
    /\ "error" \in DOMAIN messages[2]
    /\ messages[2].error
    /\ messages[2].content = ErrorText([detail |-> <<"d">>, message |-> <<"m">>])

\* C9: an entry point of the page submits a question only when analysisReady
\* is true and loading is false.
SubmitOnlyWhenReady ==
    [][ Accepted(last') => (analysisReady = "true" /\ ~loading) ]_vars

\* C10: once the probe for the bound file has settled, analysisReady is true
\* if it returned more than 3 suggestions and false in every other case.
ProbeSettlesReadiness ==
    (last.op \in {"probeResolved", "probeRejected"} /\ last.outcome = fileId) =>
        analysisReady =
            (IF /\ last.op = "probeResolved"
                /\ "suggestions" \in DOMAIN last.arg
                /\ Len(last.arg.suggestions) > 3
             THEN "true"
             ELSE "false")

\* C11: once analysisReady is true it stays true until the file_id changes, and
\* it is only a change of the file_id that takes it back to null.  (Stated for
\* the states in which every probe has settled, so that true is the readiness
\* of the bound file and not the answer of a probe issued for an earlier one.)
ReadyIsTerminal ==
    [][ (probes = NoCalls /\ analysisReady = "true" /\ analysisReady' # "true")
          => (last'.op = "changeDataset" /\ analysisReady' = "null") ]_vars

\* C12: handlePrepareAnalysis ends with preparingAnalysis false and with
\* analysisReady true exactly when runAnalysis succeeded; the refresh of the
\* suggestions touches the suggestions only, and a failed refresh not even those.
PrepareOutcome ==
    [][ /\ last'.op \in {"prepareRejected", "refreshResolved"} => ~preparingAnalysis'
        /\ (last'.op = "prepareRejected" /\ last'.outcome = "run")
              => analysisReady' = "false"
        /\ last'.op = "refreshResolved" => analysisReady' = analysisReady
        /\ (last'.op = "prepareRejected" /\ last'.outcome = "refresh")
              => (analysisReady' = analysisReady /\ suggestions' = suggestions)
      ]_vars

\* C13 (as the code has it): a session_id carried by a resolved request becomes
\* the held token whether or not one is held already; a response without a
\* session_id leaves the held token as it is.
SessionTokenFollowsResponse ==
    [][ last'.op = "askResolved" =>
          sessionId' = (IF "session_id" \in DOMAIN last'.arg
                        THEN last'.arg.session_id
                        ELSE sessionId) ]_vars

\* token s1 was held (the first answer carried it) and the second answer
\* replaced it by s2
SessionTokenFollowsResponseWitness ==
    /\ last.op = "askResolved"
    /\ ~cleared
    /\ Len(messages) = 4
    /\ messages[2].content = <<"r">>
    /\ messages[4].content = <<"s">>
    /\ sessionId = "s2"

\* C13 (as stated): a token is adopted only when none is held; a held token
\* is not replaced by a later response.
SessionTokenAdoptedOnce ==
    [][ (last'.op = "askResolved" /\ sessionId # NoSession)
          => sessionId' = sessionId ]_vars

\* C14: a resolved request replaces the suggestions by the response's list when
\* that list is non-empty, and leaves them exactly as they were when the
\* response has no list or an empty one.
SuggestionsSticky ==
    [][ last'.op = "askResolved" =>
          LET res == last'.arg
          IN suggestions' =
               (IF "suggestions" \in DOMAIN res /\ res.suggestions # <<>>
                THEN res.suggestions
                ELSE suggestions) ]_vars

\* the first answer replaced the suggestions, the second carried no list and
\* the suggestions of the first are still there
SuggestionsStickyWitness ==
    /\ last.op = "askResolved"
    /\ "suggestions" \notin DOMAIN last.arg
    /\ ~cleared
    /\ Len(messages) = 4
    /\ messages[2].content = <<"s">>
    /\ suggestions = <<S2>>

\* C15: clearChat leaves messages empty and sessionId unset, and leaves
\* analysisReady, preparingAnalysis, suggestions and loading as they were.
ClearChatFrame ==
    [][ last'.op = "clearChat" =>
          /\ messages' = <<>>
          /\ sessionId' = NoSession
          /\ UNCHANGED <<analysisReady, preparingAnalysis, suggestions, loading>>
      ]_vars

\* an answer had brought a token and the suggestions <<S2>>; the transcript was
\* cleared and the suggestions and the readiness are still there
ClearChatFrameWitness ==
    /\ last.op = "clearChat"
    /\ messages = <<>>
    /\ sessionId = NoSession
    /\ suggestions = <<S2>>
    /\ analysisReady = "true"

\* C16: the load of the suggestions, the readiness probe and
\* handlePrepareAnalysis, at every step of theirs and whatever question is in
\* flight, leave messages, sessionId and loading (and the request) untouched.
AuxiliaryCallsFrame ==
    [][ last'.op \in {"loadResolved", "loadRejected", "probeResolved",
                      "probeRejected", "handlePrepareAnalysis",
                      "runAnalysisResolved", "prepareRejected", "refreshResolved"}
          => UNCHANGED <<messages, sessionId, loading, asks>> ]_vars

\* a run of handlePrepareAnalysis failed while a question was in flight
AuxiliaryCallsFrameWitness ==
    /\ last.op = "prepareRejected"
    /\ loading
    /\ Len(asks) = 1
    /\ Len(messages) = 1
    /\ messages[1].role = "user"

\* C17 (as the code has it): a request the backend never answers is settled by
\* the timeout of the axios instance, so loading does not stay true forever.
TimeoutSettlesPending == loading ~> ~loading

\* the client timeout settled a request: loading is false and the transcript
\* ends with the failure message built from the timeout's message
TimeoutSettlesPendingWitness ==
    /\ last.op = "askRejected"
    /\ last.arg = TimeoutError
    /\ ~loading
    /\ asks = <<>>
    /\ LastOf(messages).error
    /\ LastOf(messages).content = ErrorText(TimeoutError)

\* C17 (as stated): nothing but an answer of the backend settles a request and
\* takes loading back to false; there is no timeout path.
NoTimeoutPath ==
    [][ (loading /\ ~loading') => (Settled(last') /\ last'.arg # TimeoutError) ]_vars

\* C18: every step but clearChat leaves the messages it found as a prefix of
\* the messages it leaves, unchanged and in order, and appends at most one.
AppendOnly ==
    [][ last'.op # "clearChat" =>
          /\ IsPrefix(messages, messages')
          /\ Len(messages') <= Len(messages) + 1 ]_vars

\* a transcript grown by four appends: a question, its failure message, a
\* second question and its answer
AppendOnlyWitness ==
    /\ last.op = "askResolved"
    /\ Len(messages) = 4
    /\ messages[2].error
    /\ messages[2].content = ErrorText(TimeoutError)
    /\ messages[3].role = "user"
    /\ messages[4].content = <<"t">>

\* C19: the messages of the transcript have pairwise different ids, whenever
\* the questions are submitted and the requests settle.
UniqueIds ==
    \A i, j \in 1..Len(messages) : i # j => messages[i].id # messages[j].id

\* C20: a change from one file_id to another leaves nothing of the old
\* conversation (no message, no session token), and a request issued under
\* one file_id appends nothing to the transcript once another is bound.
SessionPerDataset ==
    [][ /\ ( /\ last'.op = "changeDataset"
             /\ fileId # NoFile
             /\ fileId' # NoFile
             /\ fileId' # fileId )
          => (messages' = <<>> /\ sessionId' = NoSession)
        /\ ( /\ Settled(last')
             /\ asks # <<>>
             /\ fileId # NoFile
             /\ asks[1].file_id # fileId )
          => messages' = messages
      ]_vars

\* C27: in every reachable state, a clear during a request included, every
\* assistant message comes right after a user message and the transcript never
\* starts with an assistant message.
AssistantFollowsUser ==
    \A i \in 1..Len(messages) :
        messages[i].role = "assistant" => (i > 1 /\ messages[i - 1].role = "user")

\* C28: after clearChat the transcript stays empty and no token is held until a
\* submission is accepted: whatever settles next appends nothing and adopts nothing.
ClearedStaysEmpty ==
    [][ (last.op = "clearChat" /\ ~Accepted(last'))
          => (messages' = <<>> /\ sessionId' = NoSession) ]_vars

\* C29: a change to a file_id sets analysisReady to null, and the answer of a
\* probe or of runAnalysis for a file other than the bound one leaves
\* analysisReady as it is.
ReadinessOfBoundFile ==
    [][ /\ (last'.op = "changeDataset" /\ fileId' # NoFile) => analysisReady' = "null"
        /\ ( /\ last'.op \in {"probeResolved", "probeRejected", "runAnalysisResolved"}
             /\ fileId # NoFile
             /\ last'.outcome # fileId )
          => analysisReady' = analysisReady
      ]_vars

\* C30: when a resolved request has replaced the suggestions, a load or refresh
\* of the suggestions that was in flight at that moment and completes next does
\* not overwrite them.
ResponseSuggestionsKept ==
    [][ ( /\ last.op = "askResolved"
          /\ "suggestions" \in DOMAIN last.arg
          /\ last.arg.suggestions # <<>>
          /\ last'.op \in {"loadResolved", "refreshResolved"} )
          => suggestions' = suggestions ]_vars

\* C25: a text that opens with the marker ** (not ***) and holds no second **
\* has no closing marker for it, so the marker is emitted as literal text: the
\* result starts with a text span that starts with **, and when the text holds
\* no other marker character at all the result is that one text span.
DanglingMarkerIsLiteral ==
    (/\ fi.called
     /\ fi.returned
     /\ Len(fi.text) >= 3
     /\ SubSeq(fi.text, 1, 2) = <<"*", "*">>
     /\ fi.text[3] # "*"
     /\ \A q \in 3..(Len(fi.text) - 1) : SubSeq(fi.text, q, q + 1) # <<"*", "*">>)
    => /\ Len(fi.parts) >= 1
       /\ fi.parts[1].kind = "text"
       /\ SubSeq(fi.parts[1].content, 1, 2) = <<"*", "*">>
       /\ (\A x \in 3..Len(fi.text) : fi.text[x] = "a")
            => fi.parts = <<[kind |-> "text", content |-> fi.text]>>

\* C26 (as the code has it): for pre + ** + body + ** + post with a non-empty
\* body and with no marker character in pre, body and post, the result is the
\* text pre (when not empty), the strong element with exactly body, and the
\* text post (when not empty).
BalancedBoldOfPlainText ==
    (fi.called /\ fi.returned) =>
        \A p \in 1..Len(fi.text), q \in 1..Len(fi.text) :
            LET pre == SubSeq(fi.text, 1, p - 1)
                body == SubSeq(fi.text, p + 2, q - 1)
                post == SubSeq(fi.text, q + 2, Len(fi.text))
                plain(t) == \A x \in 1..Len(t) : t[x] \notin {"*", Backtick}
            IN (/\ q >= p + 3
                /\ q + 1 <= Len(fi.text)
                /\ SubSeq(fi.text, p, p + 1) = <<"*", "*">>
                /\ SubSeq(fi.text, q, q + 1) = <<"*", "*">>
                /\ plain(pre) /\ plain(body) /\ plain(post))
               => fi.parts =
                    (IF pre = <<>> THEN <<>> ELSE <<[kind |-> "text", content |-> pre]>>)
                    \o <<[kind |-> "strong", content |-> body]>>
                    \o (IF post = <<>> THEN <<>> ELSE <<[kind |-> "text", content |-> post]>>)

\* a**a**a has been formatted: text, strong, text
BalancedBoldOfPlainTextWitness ==
    /\ fi.called
    /\ fi.returned
    /\ fi.text = <<"a", "*", "*", "a", "*", "*", "a">>
    /\ Len(fi.parts) = 3
    /\ fi.parts[2] = [kind |-> "strong", content |-> <<"a">>]

\* C26 (as stated): the same for every pre, body and post over the marker
\* characters and the plain ones.
BalancedBold ==
    (fi.called /\ fi.returned) =>
        \A p \in 1..Len(fi.text), q \in 1..Len(fi.text) :
            LET pre == SubSeq(fi.text, 1, p - 1)
                body == SubSeq(fi.text, p + 2, q - 1)
                post == SubSeq(fi.text, q + 2, Len(fi.text))
            IN (/\ q >= p + 3
                /\ q + 1 <= Len(fi.text)
                /\ SubSeq(fi.text, p, p + 1) = <<"*", "*">>
                /\ SubSeq(fi.text, q, q + 1) = <<"*", "*">>)
               => fi.parts =
                    (IF pre = <<>> THEN <<>> ELSE <<[kind |-> "text", content |-> pre]>>)
                    \o <<[kind |-> "strong", content |-> body]>>
                    \o (IF post = <<>> THEN <<>> ELSE <<[kind |-> "text", content |-> post]>>)

\* the lines an element stands for: the lines of its body for a code block,
\* the line it was made of (its key) for any other element
SourceLines(e) == IF e.kind = "pre" THEN e.code ELSE <<md.lines[e.key + 1]>>

RECURSIVE AllSourceLines(_)
AllSourceLines(els) ==
    IF els = <<>> THEN <<>> ELSE SourceLines(Head(els)) \o AllSourceLines(Tail(els))

NotFence(line) == ~IsFence(line)

\* C21: what renderMarkdown returns accounts for every line of the text once
\* and in order: the lines its elements stand for, one after the other, are the
\* lines of the text without the fence lines.
EveryLineOnce ==
    (md.called /\ md.returned /\ ~md.null)
        => AllSourceLines(md.elements) = SelectSeq(md.lines, NotFence)

\* C22: a code block that is opened and not closed is flushed at the end of the
\* text: the last element returned is the code block with the language of the
\* opening line and every line collected after it.
UnterminatedFenceFlushed ==
    (md.called /\ md.returned /\ ~md.null /\ md.inCodeBlock)
        => /\ md.elements # <<>>
           /\ LastOf(md.elements).kind = "pre"
           /\ LastOf(md.elements).lang = md.codeLang
           /\ LastOf(md.elements).code = md.codeLines

\* C23: inside a code block a line that is not a fence line pushes no element
\* and is collected as it is, whatever it looks like, and the closing fence
\* line pushes one code block holding exactly the collected lines.
FenceLinesVerbatim ==
    [][ (md.called /\ md.inCodeBlock /\ md'.i = md.i + 1) =>
          LET line == md.lines[md.i + 1]
          IN IF IsFence(line)
             THEN /\ Len(md'.elements) = Len(md.elements) + 1
                  /\ LastOf(md'.elements).kind = "pre"
                  /\ LastOf(md'.elements).code = md.codeLines
                  /\ LastOf(md'.elements).lang = md.codeLang
             ELSE /\ md'.elements = md.elements
                  /\ md'.codeLines = Append(md.codeLines, line)
                  /\ md'.inCodeBlock
      ]_vars

\* a line that looks like a heading went into a code block as it is
FenceLinesVerbatimWitness ==
    /\ md.called
    /\ md.returned
    /\ md.elements = <<[kind |-> "pre", key |-> <<"code", 2>>, lang |-> <<"j">>,
                        code |-> << <<"#", " ", "a">> >>]>>

\* the line is n times the character c and then the rest
Repeats(line, n, cs) == n <= Len(line) /\ \A x \in 1..n : line[x] \in cs

\* n '#' and a space
HeadingOf(line, n) == Repeats(line, n, {"#"}) /\ n < Len(line) /\ line[n + 1] = " "

\* n white space characters, '-' or '*', white space
BulletOf(line, n) ==
    /\ Repeats(line, n, {" "})
    /\ n + 2 <= Len(line)
    /\ line[n + 1] \in {"-", "*"}
    /\ line[n + 2] = " "

\* n white space characters, d digits, '.', white space
OrderedOf(line, n, d) ==
    /\ Repeats(line, n, {" "})
    /\ d >= 1
    /\ n + d + 2 <= Len(line)
    /\ \A x \in (n + 1)..(n + d) : line[x] \in {"1", "2"}
    /\ line[n + d + 1] = "."
    /\ line[n + d + 2] = " "

\* C24: outside a code block a line that is not a fence line pushes one
\* element, chosen by the first rule that matches: heading (1 to 3 '#' and a
\* space, its level the number of '#'), bullet, ordered item (its index the
\* digits as written), rule (three or more hyphens and nothing else), blank,
\* paragraph; a list item is offset by min(leading white space, 4) levels of 8.
LineClassification ==
    [][ (md.called /\ ~md.inCodeBlock /\ md'.i = md.i + 1
         /\ ~IsFence(md.lines[md.i + 1])) =>
          LET line == md.lines[md.i + 1]
              e == LastOf(md'.elements)
              N == 0..Len(line)
              min4(n) == IF n <= 4 THEN n ELSE 4
              rest(n) == SubSeq(line, n + 1, Len(line))
          IN /\ md'.elements = Append(md.elements, e)
             /\ e.key = md.i
             /\ IF \E n \in 1..3 : HeadingOf(line, n)
                THEN \E n \in 1..3 :
                        /\ HeadingOf(line, n)
                        /\ e.kind = <<"h1", "h2", "h3">>[n]
                        /\ e.content = FormatInline(rest(n + 1))
                ELSE IF \E n \in N : BulletOf(line, n)
                THEN \E n \in N :
                        /\ BulletOf(line, n)
                        /\ e.kind = "bullet"
                        /\ e.marginLeft = min4(n) * 8
                        /\ e.content = FormatInline(rest(n + 2))
                ELSE IF \E n \in N, d \in N : OrderedOf(line, n, d)
                THEN \E n \in N, d \in N :
                        /\ OrderedOf(line, n, d)
                        /\ e.kind = "ordered"
                        /\ e.marginLeft = min4(n) * 8
                        /\ e.index = SubSeq(line, n + 1, n + d)
                        /\ e.content = FormatInline(rest(n + d + 2))
                ELSE IF Len(line) >= 3 /\ Repeats(line, Len(line), {"-"})
                THEN e.kind = "hr"
                ELSE IF Repeats(line, Len(line), {" "})
                THEN e.kind = "blank"
                ELSE e.kind = "p" /\ e.content = FormatInline(line)
      ]_vars

\* a bullet indented by five, clamped to four levels; an ordered item with the
\* index 12, indented by one; a heading of level 3
LineClassificationWitness ==
    /\ md.called
    /\ md.returned
    /\ Len(md.elements) = 3
    /\ md.elements[1].kind = "bullet"
    /\ md.elements[1].marginLeft = 32
    /\ md.elements[2].kind = "ordered"
    /\ md.elements[2].index = <<"1", "2">>
    /\ md.elements[2].marginLeft = 8
    /\ md.elements[3].kind = "h3"
====
